---- MODULE Spec2Model ----
(***************************************************************************)
(* Model of LogicXplainer (src/logicxplainer.py): the deletion and         *)
(* QuickXplain minimizers, the MARCO enumeration loop and the verifier,    *)
(* over an explicit oracle pair held in custom_object.                     *)
(***************************************************************************)
EXTENDS Bags, FiniteSets, Integers, Sequences, TLC

\* Size of the feature universe 1..NumFeats for the monotone oracles.
NumFeats == 3
\* Size of the feature universe for arbitrary (possibly non-monotone) oracles.
NumFeatsAny == 2
\* Depth at which the interpreter stops a recursion with RecursionError.
RecursionLimit == 6

VARIABLES
    custom_object,  \* [feats, weak_axps, weak_cxps]: the feature universe and the
                    \* families of feature sets on which waxp / wcxp answer true
    op,             \* the top-level operation that was called ("none" before a call)
    arg,            \* the caller's list object passed to the minimizer / verifier
    ret,            \* the value returned by the minimizer / verifier
    raised,         \* TRUE when the call ended with RecursionError
    calls,          \* the qxp_recur invocations of the last call, in call order
    feats_idx,      \* enum: the feature list
    alg,            \* enum: "del" or "qxp"
    pc,             \* enum: "idle", "loop", "returned", "error"
    clauses,        \* enum: the clause database of slv (sets of signed variables)
    axps,           \* enum: the axps list (bag of lists, insertion order dropped)
    cxps,           \* enum: the cxps list (bag of lists, insertion order dropped)
    iters,          \* enum: number of iterations of the while loop that started
    samples         \* enum: bag of the universal sets sampled so far

vars == <<custom_object, op, arg, ret, raised, calls, feats_idx, alg, pc, clauses,
          axps, cxps, iters, samples>>

minVars == <<op, arg, ret, raised, calls>>
enumVars == <<feats_idx, alg, pc, clauses, axps, cxps, iters, samples>>

----------------------------------------------------------------------------
\* Lists and oracles

Range(s) == {s[k] : k \in DOMAIN s}

\* The lists of distinct feature indices over F, in any order.
Lists(F) ==
    {s \in UNION {[1..n -> F] : n \in 0..Cardinality(F)} :
        \A i, j \in DOMAIN s : i # j => s[i] # s[j]}

IsMonotone(W, F) == \A S \in W : \A T \in SUBSET F : S \subseteq T => T \in W

MonotoneOracles(F) == {W \in SUBSET (SUBSET F) : IsMonotone(W, F)}

\* wcxp(U) = not waxp(F \ U)
Dual(W, F) == {U \in SUBSET F : (F \ U) \notin W}

\* list.remove(i): drops the first occurrence of i
ListRemove(l, i) ==
    LET k == CHOOSE k \in DOMAIN l : l[k] = i /\ \A j \in 1..(k - 1) : l[j] # i
    IN  SubSeq(l, 1, k - 1) \o SubSeq(l, k + 1, Len(l))

waxp(fixed) == Range(fixed) \in custom_object.weak_axps

wcxp(universal) == Range(universal) \in custom_object.weak_cxps

----------------------------------------------------------------------------
\* Deletion minimizers

\* for i in fix: the loop runs over the list object bound to fix at loop entry
\* (items); rebinding fix inside the body does not change the iteration.
\* Variant: the loop runs over the list it shrinks, so the element after a
\* removed one is skipped.
RECURSIVE axp_del_loop_skip(_, _, _)
axp_del_loop_skip(items, k, fix) ==
    IF k > Len(items) THEN fix
    ELSE LET i == items[k]
             tmp_fix == ListRemove(fix, i)
         IN  IF waxp(tmp_fix) THEN axp_del_loop_skip(items, k + 2, tmp_fix)
             ELSE axp_del_loop_skip(items, k + 1, fix)

\* Variant: the candidate is traversed from its last element to its first.
RECURSIVE axp_del_loop_reversed(_, _, _)
axp_del_loop_reversed(items, k, fix) ==
    IF k > Len(items) THEN fix
    ELSE LET i == items[Len(items) + 1 - k]
             tmp_fix == ListRemove(fix, i)
         IN  axp_del_loop_reversed(items, k + 1, IF waxp(tmp_fix) THEN tmp_fix ELSE fix)

\* Variant: the loop asks wcxp instead of waxp.
RECURSIVE axp_del_loop_wcxp(_, _, _)
axp_del_loop_wcxp(items, k, fix) ==
    IF k > Len(items) THEN fix
    ELSE LET i == items[k]
             tmp_fix == ListRemove(fix, i)
         IN  axp_del_loop_wcxp(items, k + 1, IF wcxp(tmp_fix) THEN tmp_fix ELSE fix)

RECURSIVE axp_del_loop(_, _, _)
axp_del_loop(items, k, fix) ==
    IF k > Len(items) THEN fix
    ELSE LET i == items[k]
             tmp_fix == ListRemove(fix, i)
         IN  axp_del_loop(items, k + 1, IF waxp(tmp_fix) THEN tmp_fix ELSE fix)

axp_del(fixed) == axp_del_loop(fixed, 1, fixed)

RECURSIVE cxp_del_loop(_, _, _)
cxp_del_loop(items, k, univ) ==
    IF k > Len(items) THEN univ
    ELSE LET i == items[k]
             tmp_univ == ListRemove(univ, i)
         IN  cxp_del_loop(items, k + 1, IF wcxp(tmp_univ) THEN tmp_univ ELSE univ)

cxp_del(universal) == cxp_del_loop(universal, 1, universal)

----------------------------------------------------------------------------
\* QuickXplain minimizers.  A call yields [err, ret, calls]: err is TRUE when
\* the recursion hit RecursionLimit, ret is the returned list, calls lists the
\* invocations made, in call order, each with its arguments, depth and result.

QxpReturn(B, Z, newB, depth, val, sub) ==
    [err |-> FALSE, ret |-> val,
     calls |-> <<[B |-> B, Z |-> Z, newB |-> newB, depth |-> depth,
                  err |-> FALSE, ret |-> val]>> \o sub]

QxpAbort(B, Z, newB, depth, sub) ==
    [err |-> TRUE, ret |-> <<>>,
     calls |-> <<[B |-> B, Z |-> Z, newB |-> newB, depth |-> depth,
                  err |-> TRUE, ret |-> <<>>]>> \o sub]

\* Variant: the split point is rounded up.
SplitAtCeil(Z) == (Len(Z) + 1) \div 2

\* u = int(len(Z) / 2); Z1 = Z[:u]; Z2 = Z[u:]
SplitAt(Z) == Len(Z) \div 2

RECURSIVE axp_qxp_recur(_, _, _, _)
axp_qxp_recur(B, Z, newB, depth) ==
    IF depth > RecursionLimit THEN QxpAbort(B, Z, newB, depth, <<>>)
    ELSE IF newB /\ waxp(B) THEN QxpReturn(B, Z, newB, depth, <<>>, <<>>)
    ELSE IF Len(Z) = 1 THEN QxpReturn(B, Z, newB, depth, Z, <<>>)
    ELSE LET u == SplitAt(Z)
             Z1 == SubSeq(Z, 1, u)
             Z2 == SubSeq(Z, u + 1, Len(Z))
             r2 == axp_qxp_recur(B \o Z1, Z2, Len(Z1) > 0, depth + 1)
             r1 == axp_qxp_recur(B \o r2.ret, Z1, Len(r2.ret) > 0, depth + 1)
         IN  IF r2.err THEN QxpAbort(B, Z, newB, depth, r2.calls)
             ELSE IF r1.err THEN QxpAbort(B, Z, newB, depth, r2.calls \o r1.calls)
             ELSE QxpReturn(B, Z, newB, depth, r1.ret \o r2.ret, r2.calls \o r1.calls)

axp_qxp(fixed) == axp_qxp_recur(<<>>, fixed, FALSE, 1)

RECURSIVE cxp_qxp_recur(_, _, _, _)
cxp_qxp_recur(B, Z, newB, depth) ==
    IF depth > RecursionLimit THEN QxpAbort(B, Z, newB, depth, <<>>)
    ELSE IF newB /\ wcxp(B) THEN QxpReturn(B, Z, newB, depth, <<>>, <<>>)
    ELSE IF Len(Z) = 1 THEN QxpReturn(B, Z, newB, depth, Z, <<>>)
    ELSE LET u == SplitAt(Z)
             Z1 == SubSeq(Z, 1, u)
             Z2 == SubSeq(Z, u + 1, Len(Z))
             r2 == cxp_qxp_recur(B \o Z1, Z2, Len(Z1) > 0, depth + 1)
             r1 == cxp_qxp_recur(B \o r2.ret, Z1, Len(r2.ret) > 0, depth + 1)
         IN  IF r2.err THEN QxpAbort(B, Z, newB, depth, r2.calls)
             ELSE IF r1.err THEN QxpAbort(B, Z, newB, depth, r2.calls \o r1.calls)
             ELSE QxpReturn(B, Z, newB, depth, r1.ret \o r2.ret, r2.calls \o r1.calls)

cxp_qxp(universal) == cxp_qxp_recur(<<>>, universal, FALSE, 1)

----------------------------------------------------------------------------
\* Verifier.  cells holds the list objects of the call: axp (the caller's
\* list) and fix (the copy axp[:]); tmp_fix is a fresh copy per iteration and
\* the only list remove() is applied to.  The result is [ret, arg]: the value
\* returned and the caller's list after the call.

\* Variant: the loop returns after its first iteration.
check_axp_loop_first(cells, k) ==
    IF k > Len(cells.fix) THEN [ret |-> TRUE, arg |-> cells.axp]
    ELSE LET i == cells.fix[k]
             tmp_fix == ListRemove(cells.fix, i)
         IN  [ret |-> ~waxp(tmp_fix), arg |-> cells.axp]

RECURSIVE check_axp_loop(_, _)
check_axp_loop(cells, k) ==
    IF k > Len(cells.fix) THEN [ret |-> TRUE, arg |-> cells.axp]
    ELSE LET i == cells.fix[k]
             tmp_fix == ListRemove(cells.fix, i)
         IN  IF waxp(tmp_fix) THEN [ret |-> FALSE, arg |-> cells.axp]
             ELSE check_axp_loop(cells, k + 1)

check_axp(axp) ==
    LET cells == [axp |-> axp, fix |-> axp]
    IN  IF ~waxp(cells.fix) THEN [ret |-> FALSE, arg |-> cells.axp]
        ELSE check_axp_loop(cells, 1)

RECURSIVE check_cxp_loop(_, _)
check_cxp_loop(cells, k) ==
    IF k > Len(cells.univ) THEN [ret |-> TRUE, arg |-> cells.cxp]
    ELSE LET i == cells.univ[k]
             tmp_univ == ListRemove(cells.univ, i)
         IN  IF wcxp(tmp_univ) THEN [ret |-> FALSE, arg |-> cells.cxp]
             ELSE check_cxp_loop(cells, k + 1)

check_cxp(cxp) ==
    LET cells == [cxp |-> cxp, univ |-> cxp]
    IN  IF ~wcxp(cells.univ) THEN [ret |-> FALSE, arg |-> cells.cxp]
        ELSE check_cxp_loop(cells, 1)

----------------------------------------------------------------------------
\* Oracle objects the model is run on

OracleObject(F, W, V) == [feats |-> F, weak_axps |-> W, weak_cxps |-> V]

\* Monotone waxp over 1..n (n <= NumFeats) with wcxp its dual.
DualMonotoneObjects ==
    UNION {{OracleObject(1..n, W, Dual(W, 1..n)) : W \in MonotoneOracles(1..n)} :
              n \in 0..NumFeats}

\* Any waxp over 1..n (n <= NumFeatsAny) with wcxp its dual; every predicate
\* over the subsets of 1..n occurs as waxp and as wcxp.
DualObjects ==
    UNION {{OracleObject(1..n, W, Dual(W, 1..n)) : W \in SUBSET (SUBSET (1..n))} :
              n \in 0..NumFeatsAny}

\* Two monotone oracles over 1..n (n <= NumFeatsAny) chosen independently.
MonotonePairObjects ==
    UNION {{OracleObject(1..n, W, V) :
                W \in MonotoneOracles(1..n), V \in MonotoneOracles(1..n)} :
              n \in 0..NumFeatsAny}

EnumIdle ==
    /\ feats_idx = <<>> /\ alg = "del" /\ pc = "idle" /\ clauses = {}
    /\ axps = EmptyBag /\ cxps = EmptyBag /\ iters = 0
    /\ samples = EmptyBag

----------------------------------------------------------------------------
\* Calls of the minimizers and the verifier on a list of distinct features

InitCalls ==
    /\ custom_object \in DualMonotoneObjects \cup DualObjects
    /\ arg \in Lists(custom_object.feats)
    /\ op = "none" /\ ret = <<>> /\ raised = FALSE /\ calls = <<>>
    /\ EnumIdle

Returned(name, value) ==
    /\ op = "none"
    /\ op' = name /\ ret' = value /\ raised' = FALSE /\ calls' = <<>>
    /\ UNCHANGED <<custom_object, arg, enumVars>>

QxpReturned(name, r) ==
    /\ op = "none"
    /\ op' = name /\ ret' = r.ret /\ raised' = r.err /\ calls' = r.calls
    /\ UNCHANGED <<custom_object, arg, enumVars>>

Checked(name, r) ==
    /\ op = "none"
    /\ op' = name /\ ret' = r.ret /\ arg' = r.arg /\ raised' = FALSE /\ calls' = <<>>
    /\ UNCHANGED <<custom_object, enumVars>>

CallAxpDel == Returned("axp_del", axp_del(arg))

CallCxpDel == Returned("cxp_del", cxp_del(arg))

CallAxpQxp == QxpReturned("axp_qxp", axp_qxp(arg))

CallCxpQxp == QxpReturned("cxp_qxp", cxp_qxp(arg))

CallCheckAxp == Checked("check_axp", check_axp(arg))

CallCheckCxp == Checked("check_cxp", check_cxp(arg))

NextCalls ==
    \/ CallAxpDel
    \/ CallCxpDel
    \/ CallAxpQxp
    \/ CallCxpQxp
    \/ CallCheckAxp
    \/ CallCheckCxp

SpecCalls == InitCalls /\ [][NextCalls]_vars

----------------------------------------------------------------------------
\* Properties of the minimizers and the verifier (checked under SpecCalls)

Feats == custom_object.feats

WeakAxps == custom_object.weak_axps

WeakCxps == custom_object.weak_cxps

\* A is accepted by W and dropping any single element of A leaves W.
MinimalIn(A, W) == A \in W /\ \A x \in A : (A \ {x}) \notin W

\* waxp(S) = (1 in S) or (2 in S and 3 in S), over the subsets of F
Scenario1(F) == {S \in SUBSET F : 1 \in S \/ (2 \in S /\ 3 \in S)}

\* C1: for a monotone oracle that accepts the candidate S, axp_del(S) is a
\* subset of S accepted by waxp from which no single element can be dropped;
\* the same for cxp_del and wcxp.
C1_DeletionMinimal ==
    /\ (op = "axp_del" /\ IsMonotone(WeakAxps, Feats) /\ waxp(arg)) =>
           Range(ret) \subseteq Range(arg) /\ MinimalIn(Range(ret), WeakAxps)
    /\ (op = "cxp_del" /\ IsMonotone(WeakCxps, Feats) /\ wcxp(arg)) =>
           Range(ret) \subseteq Range(arg) /\ MinimalIn(Range(ret), WeakCxps)

C1_Witness ==
    /\ op = "axp_del" /\ IsMonotone(WeakAxps, Feats) /\ waxp(arg)
    /\ Len(arg) = 3 /\ Len(ret) = 2

\* C2: for a monotone oracle that accepts the candidate S (the empty list and
\* oracles accepting the empty set included), axp_qxp(S) terminates with a
\* subset of S accepted by waxp from which no single element can be dropped;
\* the same for cxp_qxp and wcxp.
C2_QuickXplainMinimal ==
    /\ (op = "axp_qxp" /\ IsMonotone(WeakAxps, Feats) /\ waxp(arg)) =>
           /\ ~raised
           /\ Range(ret) \subseteq Range(arg) /\ MinimalIn(Range(ret), WeakAxps)
    /\ (op = "cxp_qxp" /\ IsMonotone(WeakCxps, Feats) /\ wcxp(arg)) =>
           /\ ~raised
           /\ Range(ret) \subseteq Range(arg) /\ MinimalIn(Range(ret), WeakCxps)

\* C7 as claimed: under scenario 1's oracle axp_del([1, 2, 3]) returns [1].
C7_Scenario1Claimed ==
    (op = "axp_del" /\ Feats = 1..3 /\ WeakAxps = Scenario1(Feats) /\ arg = <<1, 2, 3>>) =>
        ret = <<1>>

\* C7 amended: under scenario 1's oracle axp_del([1, 2, 3]) returns [2, 3]:
\* feature 1 is tried first and can be dropped, since {2, 3} is accepted.
C7_Scenario1 ==
    (op = "axp_del" /\ Feats = 1..3 /\ WeakAxps = Scenario1(Feats) /\ arg = <<1, 2, 3>>) =>
        ret = <<2, 3>>

C7_Witness ==
    op = "axp_del" /\ Feats = 1..3 /\ WeakAxps = Scenario1(Feats) /\ arg = <<1, 2, 3>>

\* C8: check_axp(c) is true exactly when waxp accepts c and rejects c without
\* x for every x of c, for any oracle, and leaves the caller's list as it was;
\* check_cxp likewise with wcxp; check_axp([1, 2]) is false under scenario 1.
C8_Verifier ==
    [][/\ op' = "check_axp" =>
              /\ ret' = MinimalIn(Range(arg), WeakAxps)
              /\ arg' = arg
              /\ (WeakAxps = Scenario1(Feats) /\ arg = <<1, 2>>) => ret' = FALSE
       /\ op' = "check_cxp" =>
              /\ ret' = MinimalIn(Range(arg), WeakCxps)
              /\ arg' = arg]_vars

C8_Witness ==
    /\ op = "check_axp" /\ ret = TRUE /\ Len(arg) = 2
    /\ ~IsMonotone(WeakAxps, Feats)

\* The invocations of qxp_recur that went on to split their candidate list
Splits ==
    {k \in DOMAIN calls :
        /\ Len(calls[k].Z) >= 2
        /\ k < Len(calls)
        /\ calls[k + 1].depth = calls[k].depth + 1}

\* The second recursive call made by invocation k
SecondCall(k) ==
    CHOOSE j \in DOMAIN calls :
        /\ j > k + 1
        /\ calls[j].depth = calls[k].depth + 1
        /\ \A m \in (k + 2)..(j - 1) : calls[m].depth > calls[k].depth + 1

\* Invocation k split Z after its first u elements: Z2 went first with base
\* B + Z1, then Z1 with base B + Q2, and Q1 + Q2 was returned.
SplitIs(k, u) ==
    LET c == calls[k]
        first == calls[k + 1]
        second == calls[SecondCall(k)]
        Z1 == SubSeq(c.Z, 1, u)
        Z2 == SubSeq(c.Z, u + 1, Len(c.Z))
    IN  /\ first.Z = Z2 /\ first.B = c.B \o Z1
        /\ second.Z = Z1 /\ second.B = c.B \o first.ret
        /\ c.ret = second.ret \o first.ret

\* C9 as claimed: Z1 is the prefix of size ceil(|Z|/2), Z2 has floor(|Z|/2).
C9_SplitClaimed ==
    (op \in {"axp_qxp", "cxp_qxp"} /\ ~raised) =>
        \A k \in Splits : SplitIs(k, (Len(calls[k].Z) + 1) \div 2)

\* C9 amended: Z1 is the prefix of size floor(|Z|/2) and Z2 the rest, of size
\* ceil(|Z|/2); Z2 is reduced first with base B + Z1, then Z1 with base
\* B + Q2, and the result is Q1 + Q2.
C9_Split ==
    (op \in {"axp_qxp", "cxp_qxp"} /\ ~raised) =>
        \A k \in Splits :
            /\ SplitIs(k, Len(calls[k].Z) \div 2)
            /\ Len(calls[k + 1].Z) = Len(calls[k].Z) - Len(calls[k].Z) \div 2

C9_Witness ==
    /\ op = "axp_qxp" /\ ~raised
    /\ \E k \in Splits : Len(calls[k].Z) = 3 /\ Len(calls[k].ret) = 2

----------------------------------------------------------------------------
\* enum: the MARCO loop over the SAT solver slv

\* vpool: 'u_<i>' gets the next free id on its first new_var call, so the
\* features of feats_idx get the ids 1, 2, ... in list order.
new_var(i) == CHOOSE v \in DOMAIN feats_idx : feats_idx[v] = i

\* int(vpool.obj(v).split('_')[1])
vpool_obj(v) == feats_idx[v]

Abs(x) == IF x < 0 THEN -x ELSE x

SetMax(S) == CHOOSE x \in S : \A y \in S : y <= x

\* The solver knows the variables up to the largest one of its clauses.
nof_vars == IF UNION clauses = {} THEN 0 ELSE SetMax({Abs(lit) : lit \in UNION clauses})

Satisfies(m, clause) == \E k \in DOMAIN m : m[k] \in clause

\* slv.get_model() after a true slv.solve(): any assignment of the known
\* variables that satisfies every clause, as a list of signed variables.
Models ==
    {m \in {[v \in 1..nof_vars |-> IF v \in T THEN v ELSE -v] : T \in SUBSET (1..nof_vars)} :
        \A clause \in clauses : Satisfies(m, clause)}

\* univ: the features whose literal is positive in the model, in model order
RECURSIVE UnivOf(_)
UnivOf(m) ==
    IF m = <<>> THEN <<>>
    ELSE (IF Head(m) > 0 THEN <<vpool_obj(Abs(Head(m)))>> ELSE <<>>) \o UnivOf(Tail(m))

\* fix = [i for i in feats_idx if i not in univ]
FixOf(univ) == SelectSeq(feats_idx, LAMBDA i : i \notin Range(univ))

\* Variant: the CXp is blocked with positive literals.
CxpClausePositive(cxp) == {new_var(cxp[k]) : k \in DOMAIN cxp}

\* [-new_var(f'u_{i}') for i in cxp]
CxpClause(cxp) == {-new_var(cxp[k]) : k \in DOMAIN cxp}

\* Variant: the AXp is blocked with negative literals.
AxpClauseNegative(axp) == {-new_var(axp[k]) : k \in DOMAIN axp}

\* [new_var(f'u_{i}') for i in axp]
AxpClause(axp) == {new_var(axp[k]) : k \in DOMAIN axp}

\* Variant: a weak CXp is recorded and blocked as sampled, without minimizing.
ExplainSeed(univ) ==
    IF wcxp(univ)
    THEN [kind |-> "cxp", err |-> FALSE, expl |-> univ]
    ELSE IF alg = "del"
         THEN [kind |-> "axp", err |-> FALSE, expl |-> axp_del(FixOf(univ))]
         ELSE LET r == axp_qxp(FixOf(univ))
              IN  [kind |-> "axp", err |-> r.err, expl |-> r.ret]

\* The explanation computed for one sample: [kind, err, expl]
Explain(univ) ==
    IF wcxp(univ)
    THEN IF alg = "del"
         THEN [kind |-> "cxp", err |-> FALSE, expl |-> cxp_del(univ)]
         ELSE LET r == cxp_qxp(univ)
              IN  [kind |-> "cxp", err |-> r.err, expl |-> r.ret]
    ELSE IF alg = "del"
         THEN [kind |-> "axp", err |-> FALSE, expl |-> axp_del(FixOf(univ))]
         ELSE LET r == axp_qxp(FixOf(univ))
              IN  [kind |-> "axp", err |-> r.err, expl |-> r.ret]

\* enum is called: vpool is filled, axps and cxps are empty, slv is created.
EnumStart ==
    /\ pc = "idle"
    /\ pc' = "loop"
    /\ clauses' = {} /\ axps' = EmptyBag /\ cxps' = EmptyBag
    /\ UNCHANGED <<custom_object, minVars, feats_idx, alg, iters, samples>>

\* One iteration of the while loop: sample, classify, minimize, block.
EnumIterate ==
    /\ pc = "loop"
    /\ \E m \in Models :
        LET univ == UnivOf(m)
            e == Explain(univ)
        IN  /\ iters' = iters + 1
            /\ samples' = samples (+) SetToBag({Range(univ)})
            /\ IF e.err
               THEN /\ pc' = "error"
                    /\ UNCHANGED <<clauses, axps, cxps>>
               ELSE IF e.kind = "cxp"
               THEN /\ clauses' = clauses \cup {CxpClause(e.expl)}
                    /\ cxps' = cxps (+) SetToBag({e.expl})
                    /\ UNCHANGED <<pc, axps>>
               ELSE /\ clauses' = clauses \cup {AxpClause(e.expl)}
                    /\ axps' = axps (+) SetToBag({e.expl})
                    /\ UNCHANGED <<pc, cxps>>
    /\ UNCHANGED <<custom_object, minVars, feats_idx, alg>>

\* slv.solve() is false: the loop ends and enum returns axps, cxps.
EnumReturn ==
    /\ pc = "loop"
    /\ Models = {}
    /\ pc' = "returned"
    /\ UNCHANGED <<custom_object, minVars, feats_idx, alg, clauses, axps, cxps,
                   iters, samples>>

\* The feature list of an enum call: the universe 1..n of the oracles, in
\* ascending or in descending order.
Orders(F) ==
    LET n == Cardinality(F)
    IN  {[k \in 1..n |-> k], [k \in 1..n |-> n + 1 - k]}

InitEnum ==
    /\ custom_object \in DualMonotoneObjects \cup DualObjects \cup MonotonePairObjects
    /\ feats_idx \in Orders(custom_object.feats)
    /\ alg \in {"del", "qxp"}
    /\ pc = "idle" /\ clauses = {}
    /\ axps = EmptyBag /\ cxps = EmptyBag /\ iters = 0 /\ samples = EmptyBag
    /\ op = "none" /\ arg = <<>> /\ ret = <<>> /\ raised = FALSE /\ calls = <<>>

NextEnum ==
    \/ EnumStart
    \/ EnumIterate
    \/ EnumReturn

SpecEnum == InitEnum /\ [][NextEnum]_vars

----------------------------------------------------------------------------
\* Properties of enum (checked under SpecEnum)

\* The subset-minimal members of the family W
AllMinimal(W) == {S \in W : \A T \in SUBSET S : T \in W => T = S}

\* The explanations of a list of explanations, as feature sets
AsSets(bag) == {Range(e) : e \in BagToSet(bag)}

MonotonePair == IsMonotone(WeakAxps, Feats) /\ IsMonotone(WeakCxps, Feats)

DualPair == WeakCxps = Dual(WeakAxps, Feats)

RECURSIVE Pow2(_)
Pow2(n) == IF n = 0 THEN 1 ELSE 2 * Pow2(n - 1)

\* C3: for monotone oracles with wcxp(U) = not waxp(F \ U), when enum returns
\* (alg 'del' or 'qxp') the AXps are exactly the subset-minimal sets of waxp
\* and the CXps exactly those of wcxp; scenario 2 yields the AXps {1}, {2, 3}.
C3_Complete ==
    (pc = "returned" /\ MonotonePair /\ DualPair) =>
        /\ AsSets(axps) = AllMinimal(WeakAxps)
        /\ AsSets(cxps) = AllMinimal(WeakCxps)
        /\ (Feats = 1..3 /\ WeakAxps = Scenario1(Feats)) =>
               AsSets(axps) = {{1}, {2, 3}}

C3_Witness ==
    /\ pc = "returned" /\ alg = "qxp" /\ DualPair
    /\ Feats = 1..3 /\ WeakAxps = Scenario1(Feats)
    /\ BagCardinality(cxps) = 2

\* C4 as claimed: for any two monotone oracles, every AXp and every CXp
\* listed so far by one enum call share a feature.
C4_DualityClaimed ==
    MonotonePair =>
        \A a \in BagToSet(axps), c \in BagToSet(cxps) : Range(a) \cap Range(c) # {}

\* C4 amended: for monotone oracles with wcxp(U) = not waxp(F \ U), every AXp
\* and every CXp listed so far by one enum call share a feature.
C4_Duality ==
    (MonotonePair /\ DualPair) =>
        \A a \in BagToSet(axps), c \in BagToSet(cxps) : Range(a) \cap Range(c) # {}

C4_Witness ==
    /\ MonotonePair /\ DualPair /\ pc = "returned"
    /\ BagCardinality(axps) = 2 /\ BagCardinality(cxps) = 2

\* C5: for monotone oracles and either minimizer, enum does not abort, runs
\* at most 2^|feats_idx| iterations, and returns after |axps| + |cxps| of them.
C5_Terminates ==
    MonotonePair =>
        /\ pc # "error"
        /\ iters <= Pow2(Len(feats_idx))
        /\ pc = "returned" => iters = BagCardinality(axps) + BagCardinality(cxps)

\* C6: the axps list never holds two entries that are equal as sets, nor does
\* the cxps list, and an iteration keeps every entry appended before it.
C6_NoDuplicates ==
    [][/\ \A a \in BagToSet(axps') :
              /\ CopiesIn(a, axps') = 1
              /\ \A b \in BagToSet(axps') : Range(a) = Range(b) => a = b
       /\ \A c \in BagToSet(cxps') :
              /\ CopiesIn(c, cxps') = 1
              /\ \A b \in BagToSet(cxps') : Range(c) = Range(b) => c = b
       /\ axps \sqsubseteq axps'
       /\ cxps \sqsubseteq cxps']_vars

C6_Witness ==
    pc = "returned" /\ BagCardinality(axps) = 3 /\ BagCardinality(cxps) = 3

\* A clause is true under the assignment that makes exactly the features of U
\* universal (features the model leaves out count as fixed).
ClauseTrue(clause, U) ==
    \E lit \in clause : IF lit > 0 THEN vpool_obj(lit) \in U ELSE vpool_obj(-lit) \notin U

\* C10: an iteration's sample satisfies every clause added before it, the one
\* clause the iteration adds (negative over the CXp when wcxp holds on the
\* sample, positive over the AXp otherwise) is false under that sample, and
\* no assignment is sampled twice; for any oracles, empty explanations included.
C10_Blocking ==
    [][iters' = iters + 1 =>
          \E U \in BagToSet(samples') :
              /\ samples' = samples (+) SetToBag({U})
              /\ CopiesIn(U, samples') = 1
              /\ \A clause \in clauses : ClauseTrue(clause, U)
              /\ pc' = "loop" =>
                     \E added \in clauses' :
                         /\ clauses' \ clauses = {added}
                         /\ ~ClauseTrue(added, U)
                         /\ IF U \in WeakCxps
                            THEN /\ \A lit \in added : lit < 0
                                 /\ \E c \in BagToSet(cxps') :
                                        /\ cxps' = cxps (+) SetToBag({c})
                                        /\ added = {-new_var(i) : i \in Range(c)}
                                 /\ axps' = axps
                            ELSE /\ \A lit \in added : lit > 0
                                 /\ \E a \in BagToSet(axps') :
                                        /\ axps' = axps (+) SetToBag({a})
                                        /\ added = {new_var(i) : i \in Range(a)}
                                 /\ cxps' = cxps]_vars

C10_Witness ==
    /\ pc = "loop" /\ ~MonotonePair
    /\ {} \in clauses /\ BagCardinality(samples) = 2

====
